---- MODULE Spec2Model ----
(***************************************************************************)
(* A model of docs/docs/guides/local_llms.ipynb: the notebook's code cells  *)
(* run by one kernel, with the clients, the prompt selector and the chain   *)
(* the cells build, the local Ollama service the Quickstart describes, and  *)
(* the cells' output (standard output and the displayed result).            *)
(***************************************************************************)
EXTENDS Integers, Sequences, FiniteSets, TLC

(* ------------------------------ bounds --------------------------------- *)

\* the longest generation of one call, in tokens
MaxTokens == 2

\* how many code cells the user may leave out of a run
MaxSkips == 1

\* the text a model generates, token by token; a generation stops anywhere in it
Vocabulary == <<"Neil", "Armstrong", "landed", "on", "the", "moon">>

Word(i) == Vocabulary[((i - 1) % Len(Vocabulary)) + 1]

(* ----------------------- the notebook's code cells ---------------------- *)

Stmt(op, arg) == [op |-> op, arg |-> arg]

\* the code cells, in document order, by cell id
CodeCells ==
    << "86178adb", "9cd83603", "8ecd2f78", "5eba38dc", "a88bf0c8", "7890a077",
       "e27baf6e", "915ecd4c", "e3d4526f", "16759b7c", "8555f5bf", "d0aedfd2" >>

NCells == Len(CodeCells)

Cell_86178adb ==
    << Stmt("import", "Ollama"),
       Stmt("new", "Ollama"),
       Stmt("call", "The first man on the moon was ...") >>

Cell_9cd83603 ==
    << Stmt("import", "CallbackManager"),
       Stmt("import", "StreamingStdOutCallbackHandler"),
       Stmt("new", "Ollama"),
       Stmt("call", "The first man on the moon was ...") >>

Cell_8ecd2f78 ==
    << Stmt("import", "Ollama"),
       Stmt("new", "Ollama"),
       Stmt("call", "The first man on the moon was ... think step by step") >>

Cell_5eba38dc ==
    << Stmt("shell", "%env CMAKE_ARGS"),
       Stmt("shell", "%env FORCE_CMAKE"),
       Stmt("shell", "%pip install llama-cpp-python") >>

\* variant: the LlamaCpp cell without its import of LlamaCpp
Cell_a88bf0c8_noimport ==
    << Stmt("import", "CallbackManager"),
       Stmt("import", "StreamingStdOutCallbackHandler"),
       Stmt("new", "LlamaCpp") >>

Cell_a88bf0c8 ==
    << Stmt("import", "CallbackManager"),
       Stmt("import", "StreamingStdOutCallbackHandler"),
       Stmt("import", "LlamaCpp"),
       Stmt("new", "LlamaCpp") >>

Cell_7890a077 ==
    << Stmt("call", "The first man on the moon was ... Let's think step by step") >>

Cell_e27baf6e ==
    << Stmt("shell", "pip install gpt4all") >>

Cell_915ecd4c ==
    << Stmt("import", "GPT4All"),
       Stmt("new", "GPT4All") >>

Cell_e3d4526f ==
    << Stmt("call", "The first man on the moon was ... Let's think step by step") >>

\* variant: the "Set our LLM" cell holding its comment only
Cell_16759b7c_comment ==
    << Stmt("shell", "# Set our LLM") >>

Cell_16759b7c ==
    << Stmt("new", "LlamaCpp") >>

Cell_8555f5bf ==
    << Stmt("import", "LLMChain"),
       Stmt("import", "ConditionalPromptSelector"),
       Stmt("import", "PromptTemplate"),
       Stmt("template", "DEFAULT_LLAMA_SEARCH_PROMPT"),
       Stmt("template", "DEFAULT_SEARCH_PROMPT"),
       Stmt("selector", "QUESTION_PROMPT_SELECTOR"),
       Stmt("get_prompt", "prompt"),
       Stmt("display", "prompt") >>

Cell_d0aedfd2 ==
    << Stmt("chain", "llm_chain"),
       Stmt("question", "question"),
       Stmt("run", "question") >>

Source(id) ==
    CASE id = "86178adb" -> Cell_86178adb
      [] id = "9cd83603" -> Cell_9cd83603
      [] id = "8ecd2f78" -> Cell_8ecd2f78
      [] id = "5eba38dc" -> Cell_5eba38dc
      [] id = "a88bf0c8" -> Cell_a88bf0c8
      [] id = "7890a077" -> Cell_7890a077
      [] id = "e27baf6e" -> Cell_e27baf6e
      [] id = "915ecd4c" -> Cell_915ecd4c
      [] id = "e3d4526f" -> Cell_e3d4526f
      [] id = "16759b7c" -> Cell_16759b7c
      [] id = "8555f5bf" -> Cell_8555f5bf
      [] id = "d0aedfd2" -> Cell_d0aedfd2

(* ------------------- the arguments of the constructors ------------------ *)

\* CallbackManager([StreamingStdOutCallbackHandler()]): the handlers registered
StreamingManager == {"StreamingStdOutCallbackHandler"}

LlamaWeights == "/Users/rlm/Desktop/Code/llama.cpp/models/openorca-platypus2-13b.gguf.q4_0.bin"

GPT4AllWeights == "/Users/rlm/Desktop/Code/gpt4all/models/nous-hermes-13b.ggmlv3.q4_0.bin"

WeightFiles == {LlamaWeights, GPT4AllWeights}

Args_86178adb == [model |-> <<"llama2">>]

\* variant: the streaming cell without its callback_manager argument
Args_9cd83603_silent == [model |-> <<"llama2">>]

Args_9cd83603 == [model |-> <<"llama2">>, callback_manager |-> StreamingManager]

\* variant: the tagged-model cell given the streaming handler
Args_8ecd2f78_streaming ==
    [model |-> <<"llama2", ":", "13b">>, callback_manager |-> {"StreamingStdOutCallbackHandler"}]

Args_8ecd2f78 == [model |-> <<"llama2", ":", "13b">>]

Args_a88bf0c8 ==
    [model_path |-> LlamaWeights, n_gpu_layers |-> 1, n_batch |-> 512,
     n_ctx |-> 2048, f16_kv |-> TRUE, callback_manager |-> StreamingManager,
     verbose |-> TRUE]

Args_915ecd4c == [model |-> GPT4AllWeights]

\* variant: the second construction with a batch size above the context window
Args_16759b7c_batch ==
    [model_path |-> "/Users/rlm/Desktop/Code/llama.cpp/models/openorca-platypus2-13b.gguf.q4_0.bin",
     n_gpu_layers |-> 1, n_batch |-> 4096, n_ctx |-> 2048, f16_kv |-> TRUE,
     callback_manager |-> {"StreamingStdOutCallbackHandler"}, verbose |-> TRUE]

Args_16759b7c ==
    [model_path |-> LlamaWeights, n_gpu_layers |-> 1, n_batch |-> 512,
     n_ctx |-> 2048, f16_kv |-> TRUE, callback_manager |-> StreamingManager,
     verbose |-> TRUE]

NoArgs == [none |-> TRUE]

CtorArgs(id) ==
    CASE id = "86178adb" -> Args_86178adb
      [] id = "9cd83603" -> Args_9cd83603
      [] id = "8ecd2f78" -> Args_8ecd2f78
      [] id = "a88bf0c8" -> Args_a88bf0c8
      [] id = "915ecd4c" -> Args_915ecd4c
      [] id = "16759b7c" -> Args_16759b7c
      [] OTHER -> NoArgs

\* the values the "Llama.cpp" section documents for the parameters
DocumentedParams == [n_gpu_layers |-> 1, n_ctx |-> 2048, f16_kv |-> TRUE]

(* ------------------------------- clients -------------------------------- *)

NoClient == [cls |-> "None", args |-> NoArgs, madeIn |-> "None"]

Client(cls, args, id) == [cls |-> cls, args |-> args, madeIn |-> id]

\* the handlers a client was given: none without a callback_manager argument
Handlers(client) ==
    IF "callback_manager" \in DOMAIN client.args
    THEN client.args.callback_manager
    ELSE {}

Streams(client) == "StreamingStdOutCallbackHandler" \in Handlers(client)

\* the classes a client of class cls is an instance of
Mro(cls) == {cls, "LLM", "BaseLLM"}

IsInstance(client, cls) == client # NoClient /\ cls \in Mro(client.cls)

\* the weights file a constructor loads, if it loads one
WeightsOf(args) ==
    IF "model_path" \in DOMAIN args THEN {args.model_path}
    ELSE IF "model" \in DOMAIN args /\ args.model \in WeightFiles THEN {args.model}
    ELSE {}

(* --------------------------- Ollama identifiers ------------------------- *)

\* the version `ollama pull <family>` fetches when no tag is given
BasicTag == <<"most basic">>

Colons(id) == {i \in DOMAIN id : id[i] = ":"}

FirstOf(S) == CHOOSE i \in S : \A j \in S : i <= j

\* variant: the tag of an identifier ignored
ResolveNoTag(id) ==
    [family |-> IF Colons(id) = {} THEN id ELSE SubSeq(id, 1, FirstOf(Colons(id)) - 1),
     tag |-> BasicTag]

\* <model family>:<tag>, the tag optional
Resolve(id) ==
    IF Colons(id) = {}
    THEN [family |-> id, tag |-> BasicTag]
    ELSE [family |-> SubSeq(id, 1, FirstOf(Colons(id)) - 1),
          tag |-> SubSeq(id, FirstOf(Colons(id)) + 1, Len(id))]

\* the identifiers the notebook names for `ollama pull`
PullableIds == { <<"llama2">>, <<"llama2", ":", "13b">> }

(* ------------------------------- prompts -------------------------------- *)

Lit(s) == [kind |-> "lit", text |-> s]

Var(v) == [kind |-> "var", text |-> v]

NoTemplate == [input_variables |-> <<>>, template |-> <<>>]

DEFAULT_LLAMA_SEARCH_PROMPT ==
    [input_variables |-> <<"question">>,
     template |->
        << Lit("<<SYS>> \n You are an assistant tasked with improving Google search results. \n <</SYS>> \n\n [INST] Generate THREE Google search queries that are similar to this question. The output should be a numbered list of questions and each should have a question mark at the end: \n\n "),
           Var("question"),
           Lit(" [/INST]") >>]

\* variant: the default template with a placeholder it does not declare
DEFAULT_SEARCH_PROMPT_query ==
    [input_variables |-> <<"question">>,
     template |->
        << Lit("You are an assistant tasked with improving Google search results. Generate THREE Google search queries that are similar to this question. The output should be a numbered list of questions and each should have a question mark at the end: "),
           Var("query") >>]

DEFAULT_SEARCH_PROMPT ==
    [input_variables |-> <<"question">>,
     template |->
        << Lit("You are an assistant tasked with improving Google search results. Generate THREE Google search queries that are similar to this question. The output should be a numbered list of questions and each should have a question mark at the end: "),
           Var("question") >>]

\* the placeholders of a template's text
Placeholders(t) ==
    {t.template[i].text : i \in {j \in DOMAIN t.template : t.template[j].kind = "var"}}

Declared(t) == {t.input_variables[i] : i \in DOMAIN t.input_variables}

\* str.format: every placeholder replaced by its input
Format(t, inputs) ==
    [i \in DOMAIN t.template |->
        IF t.template[i].kind = "var"
        THEN inputs[t.template[i].text]
        ELSE t.template[i].text]

\* variant: a condition that holds of every client
LambdaAnyLLM(client) == IsInstance(client, "LLM")

\* lambda llm: isinstance(llm, LlamaCpp)
LambdaIsLlamaCpp(client) == IsInstance(client, "LlamaCpp")

QUESTION_PROMPT_SELECTOR ==
    [default_prompt |-> DEFAULT_SEARCH_PROMPT,
     conditionals |-> << [cond |-> "lambda", prompt |-> DEFAULT_LLAMA_SEARCH_PROMPT] >>]

\* the names a condition's body reads when it is evaluated
CondReads(cond) == {"LlamaCpp"}

ApplyCond(cond, client) == LambdaIsLlamaCpp(client)

\* ConditionalPromptSelector.get_prompt: the prompt of the first condition
\* that holds of the client, the default prompt when none does
GetPrompt(sel, client) ==
    LET hits == {i \in DOMAIN sel.conditionals : ApplyCond(sel.conditionals[i].cond, client)}
    IN IF hits = {} THEN sel.default_prompt ELSE sel.conditionals[FirstOf(hits)].prompt

Question == "What NFL team won the Super Bowl in the year that Justin Bieber was born?"

NoChain == [prompt |-> NoTemplate, llm |-> NoClient]

(* ----------------------------- the state -------------------------------- *)

VARIABLES
    pc,           \* the code cell the kernel is at (an index of CodeCells)
    ip,           \* the statement of that cell it is at
    skips,        \* the cells left out so far
    status,       \* how each cell ended
    ns,           \* the names imports and definitions have bound
    llm,          \* the client bound to `llm`
    llmBefore,    \* the client bound to `llm` when the cell at pc started
    prompt,       \* the template bound to `prompt`
    llm_chain,    \* the chain bound to `llm_chain`
    app,          \* whether the Ollama app is running
    pulled,       \* the models fetched with `ollama pull`
    files,        \* the weights files on disk
    invocations,  \* every constructor and client call made, in order
    gen,          \* the calls in progress, each with the tokens generated so far
    stdout,       \* what was written to standard output, each token with its call
    out           \* the last displayed result (execute_result)

vars ==
    << pc, ip, skips, status, ns, llm, llmBefore, prompt, llm_chain, app,
       pulled, files, invocations, gen, stdout, out >>

Pending == [state |-> "pending", exc |-> "none", at |-> 0]

Ended(state) == [state |-> state, exc |-> "none", at |-> 0]

Raised(exc, at) == [state |-> "error", exc |-> exc, at |-> at]

NoModel == [family |-> <<>>, tag |-> <<>>]

NoOut == [cell |-> 0, kind |-> "none", call |-> 0, text |-> <<>>, tmpl |-> NoTemplate]

NoCalls == [c \in {} |-> <<>>]

Init ==
    /\ pc = 1
    /\ ip = 1
    /\ skips = 0
    /\ status = [i \in 1..NCells |-> Pending]
    /\ ns = {}
    /\ llm = NoClient
    /\ llmBefore = NoClient
    /\ prompt = NoTemplate
    /\ llm_chain = NoChain
    /\ app = FALSE
    /\ pulled = {}
    /\ files \in SUBSET WeightFiles
    /\ invocations = <<>>
    /\ gen = NoCalls
    /\ stdout = <<>>
    /\ out = NoOut

(* ------------------------------ the kernel ------------------------------ *)

Running == pc <= NCells

CellId == CodeCells[pc]

Cur == Source(CellId)[ip]

\* variant: calls that do not block the kernel
KernelNeverBusy == TRUE

\* a client call is synchronous: the kernel runs nothing else until it returns
KernelIdle == DOMAIN gen = {}

AtStmt(op) ==
    /\ Running
    /\ KernelIdle
    /\ ip <= Len(Source(CellId))
    /\ Cur.op = op

\* the names bound in the kernel's namespace
BoundNames ==
    ns \cup (IF llm # NoClient THEN {"llm"} ELSE {})
       \cup (IF prompt # NoTemplate THEN {"prompt"} ELSE {})
       \cup (IF llm_chain # NoChain THEN {"llm_chain"} ELSE {})

\* the names a statement reads
Reads(stmt, id) ==
    CASE stmt.op = "new" ->
            {stmt.arg} \cup
            (IF "callback_manager" \in DOMAIN CtorArgs(id)
             THEN {"CallbackManager", "StreamingStdOutCallbackHandler"}
             ELSE {})
      [] stmt.op = "call" -> {"llm"}
      [] stmt.op = "template" -> {"PromptTemplate"}
      [] stmt.op = "selector" ->
            {"ConditionalPromptSelector", "DEFAULT_SEARCH_PROMPT",
             "DEFAULT_LLAMA_SEARCH_PROMPT"}
      [] stmt.op = "get_prompt" -> {"QUESTION_PROMPT_SELECTOR", "llm"}
      [] stmt.op = "display" -> {"prompt"}
      [] stmt.op = "chain" -> {"LLMChain", "prompt", "llm"}
      [] stmt.op = "run" -> {"llm_chain", "question"}
      [] OTHER -> {}

NamesBound == Reads(Cur, CellId) \subseteq BoundNames

\* variant: the failing statement run again
AfterRaiseRetry == [pc |-> pc, ip |-> ip]

\* no cell catches an exception: it ends the cell, and the user goes on to the next
AfterRaise == [pc |-> pc + 1, ip |-> 1]

Raise(exc) ==
    /\ status' = [status EXCEPT ![pc] = Raised(exc, ip)]
    /\ pc' = AfterRaise.pc
    /\ ip' = AfterRaise.ip
    /\ llmBefore' = llm

Step == ip' = ip + 1 /\ UNCHANGED << pc, status, llmBefore >>

Invocation(op, client, text, raised, served) ==
    [cell |-> pc, at |-> ip, op |-> op, client |-> client, prompt |-> text,
     raised |-> raised, served |-> served]

\* variant: only the untagged version of a family served
ServedOnlyBasic(m) == app /\ m \in pulled /\ m.tag = BasicTag

\* "When the app is running, all models are automatically served"
Served(m) == app /\ m \in pulled

\* whether a call can reach the model: Ollama over the local port, the others in process
Reachable(client) ==
    client.cls = "Ollama" => Served(Resolve(client.args.model))

ServedModel(client) ==
    IF client.cls = "Ollama" THEN Resolve(client.args.model) ELSE NoModel

(* ------------------------------ statements ------------------------------ *)

NameError ==
    /\ Running /\ KernelIdle /\ ip <= Len(Source(CellId))
    /\ ~NamesBound
    /\ Raise("NameError")
    /\ UNCHANGED << skips, ns, llm, prompt, llm_chain, app, pulled, files,
                    invocations, gen, stdout, out >>

Import ==
    /\ AtStmt("import")
    /\ ns' = ns \cup {Cur.arg}
    /\ Step
    /\ UNCHANGED << skips, llm, prompt, llm_chain, app, pulled, files,
                    invocations, gen, stdout, out >>

Shell ==
    /\ AtStmt("shell")
    /\ Step
    /\ UNCHANGED << skips, ns, llm, prompt, llm_chain, app, pulled, files,
                    invocations, gen, stdout, out >>

Construct ==
    /\ AtStmt("new") /\ NamesBound
    /\ WeightsOf(CtorArgs(CellId)) \subseteq files
    /\ llm' = Client(Cur.arg, CtorArgs(CellId), CellId)
    /\ invocations' = Append(invocations, Invocation("new", llm', <<>>, FALSE, NoModel))
    /\ Step
    /\ UNCHANGED << skips, ns, prompt, llm_chain, app, pulled, files, gen, stdout, out >>

ConstructRaise ==
    /\ AtStmt("new") /\ NamesBound
    /\ ~(WeightsOf(CtorArgs(CellId)) \subseteq files)
    /\ invocations' =
          Append(invocations,
                 Invocation("new", Client(Cur.arg, CtorArgs(CellId), CellId), <<>>,
                            TRUE, NoModel))
    /\ Raise("ValueError")
    /\ UNCHANGED << skips, ns, llm, prompt, llm_chain, app, pulled, files, gen, stdout, out >>

\* the call reaches the model and generation starts
Begin(client, text) ==
    /\ invocations' =
          Append(invocations, Invocation("call", client, text, FALSE, ServedModel(client)))
    /\ gen' = [c \in DOMAIN gen \cup {Len(invocations) + 1} |->
                  IF c \in DOMAIN gen THEN gen[c] ELSE <<>>]
    /\ UNCHANGED << pc, ip, status, llmBefore >>

CallBegin ==
    /\ AtStmt("call") /\ NamesBound
    /\ Reachable(llm)
    /\ Begin(llm, <<Cur.arg>>)
    /\ UNCHANGED << skips, ns, llm, prompt, llm_chain, app, pulled, files, stdout, out >>

CallRaise ==
    /\ AtStmt("call") /\ NamesBound
    /\ ~Reachable(llm)
    /\ invocations' =
          Append(invocations, Invocation("call", llm, <<Cur.arg>>, TRUE, NoModel))
    /\ Raise("ConnectionError")
    /\ UNCHANGED << skips, ns, llm, prompt, llm_chain, app, pulled, files, gen, stdout, out >>

\* on_llm_new_token of every registered handler: the streaming handler writes the token
Emit(c, t) ==
    IF Streams(invocations[c].client)
    THEN Append(stdout, [call |-> c, tok |-> t])
    ELSE stdout

NewToken ==
    \E c \in DOMAIN gen :
        /\ Len(gen[c]) < MaxTokens
        /\ gen' = [gen EXCEPT ![c] = Append(@, Word(Len(gen[c]) + 1))]
        /\ stdout' = Emit(c, Word(Len(gen[c]) + 1))
        /\ UNCHANGED << pc, ip, skips, status, ns, llm, llmBefore, prompt, llm_chain,
                        app, pulled, files, invocations, out >>

CallReturn ==
    \E c \in DOMAIN gen :
        /\ out' = [cell |-> invocations[c].cell, kind |-> "str", call |-> c,
                   text |-> gen[c], tmpl |-> NoTemplate]
        /\ gen' = [d \in DOMAIN gen \ {c} |-> gen[d]]
        /\ Step
        /\ UNCHANGED << skips, ns, llm, prompt, llm_chain, app, pulled, files,
                        invocations, stdout >>

DefineTemplate ==
    /\ AtStmt("template") /\ NamesBound
    /\ ns' = ns \cup {Cur.arg}
    /\ Step
    /\ UNCHANGED << skips, llm, prompt, llm_chain, app, pulled, files,
                    invocations, gen, stdout, out >>

DefineSelector ==
    /\ AtStmt("selector") /\ NamesBound
    /\ ns' = ns \cup {Cur.arg}
    /\ Step
    /\ UNCHANGED << skips, llm, prompt, llm_chain, app, pulled, files,
                    invocations, gen, stdout, out >>

\* the names the selector's conditions read when get_prompt evaluates them
SelectorReads(sel) ==
    UNION {CondReads(sel.conditionals[i].cond) : i \in DOMAIN sel.conditionals}

SelectPrompt ==
    /\ AtStmt("get_prompt") /\ NamesBound
    /\ SelectorReads(QUESTION_PROMPT_SELECTOR) \subseteq BoundNames
    /\ prompt' = GetPrompt(QUESTION_PROMPT_SELECTOR, llm)
    /\ Step
    /\ UNCHANGED << skips, ns, llm, llm_chain, app, pulled, files,
                    invocations, gen, stdout, out >>

SelectRaise ==
    /\ AtStmt("get_prompt") /\ NamesBound
    /\ ~(SelectorReads(QUESTION_PROMPT_SELECTOR) \subseteq BoundNames)
    /\ Raise("NameError")
    /\ UNCHANGED << skips, ns, llm, prompt, llm_chain, app, pulled, files,
                    invocations, gen, stdout, out >>

Display ==
    /\ AtStmt("display") /\ NamesBound
    /\ out' = [cell |-> pc, kind |-> "PromptTemplate", call |-> 0, text |-> <<>>,
               tmpl |-> prompt]
    /\ Step
    /\ UNCHANGED << skips, ns, llm, prompt, llm_chain, app, pulled, files,
                    invocations, gen, stdout >>

BuildChain ==
    /\ AtStmt("chain") /\ NamesBound
    /\ llm_chain' = [prompt |-> prompt, llm |-> llm]
    /\ Step
    /\ UNCHANGED << skips, ns, llm, prompt, app, pulled, files,
                    invocations, gen, stdout, out >>

SetQuestion ==
    /\ AtStmt("question")
    /\ ns' = ns \cup {Cur.arg}
    /\ Step
    /\ UNCHANGED << skips, llm, prompt, llm_chain, app, pulled, files,
                    invocations, gen, stdout, out >>

\* the inputs of llm_chain.run({"question": question})
RunInputs == [question |-> Question]

CanFormat(t, inputs) ==
    (Placeholders(t) \cup Declared(t)) \subseteq DOMAIN inputs

\* LLMChain.run: format the prompt with the inputs and call the chain's llm with it
ChainRun ==
    /\ AtStmt("run") /\ NamesBound
    /\ CanFormat(llm_chain.prompt, RunInputs)
    /\ Reachable(llm_chain.llm)
    /\ Begin(llm_chain.llm, Format(llm_chain.prompt, RunInputs))
    /\ UNCHANGED << skips, ns, llm, prompt, llm_chain, app, pulled, files, stdout, out >>

ChainRunRaise ==
    /\ AtStmt("run") /\ NamesBound
    /\ ~(CanFormat(llm_chain.prompt, RunInputs) /\ Reachable(llm_chain.llm))
    /\ invocations' =
          IF CanFormat(llm_chain.prompt, RunInputs)
          THEN Append(invocations,
                      Invocation("call", llm_chain.llm,
                                 Format(llm_chain.prompt, RunInputs), TRUE, NoModel))
          ELSE invocations
    /\ Raise(IF CanFormat(llm_chain.prompt, RunInputs) THEN "ConnectionError" ELSE "KeyError")
    /\ UNCHANGED << skips, ns, llm, prompt, llm_chain, app, pulled, files, gen, stdout, out >>

FinishCell ==
    /\ Running /\ KernelIdle
    /\ ip > Len(Source(CellId))
    /\ status' = [status EXCEPT ![pc] = Ended("ok")]
    /\ pc' = pc + 1
    /\ ip' = 1
    /\ llmBefore' = llm
    /\ UNCHANGED << skips, ns, llm, prompt, llm_chain, app, pulled, files,
                    invocations, gen, stdout, out >>

\* the user leaves a cell out
SkipCell ==
    /\ Running /\ KernelIdle
    /\ ip = 1
    /\ skips < MaxSkips
    /\ status' = [status EXCEPT ![pc] = Ended("skipped")]
    /\ skips' = skips + 1
    /\ pc' = pc + 1
    /\ ip' = 1
    /\ llmBefore' = llm
    /\ UNCHANGED << ns, llm, prompt, llm_chain, app, pulled, files,
                    invocations, gen, stdout, out >>

(* --------------------------- the Ollama service ------------------------- *)

\* "Download and run the app"
RunApp ==
    /\ ~app
    /\ app' = TRUE
    /\ UNCHANGED << pc, ip, skips, status, ns, llm, llmBefore, prompt, llm_chain,
                    pulled, files, invocations, gen, stdout, out >>

\* `ollama pull <model family>:<tag>`
Pull ==
    \E id \in PullableIds :
        /\ Resolve(id) \notin pulled
        /\ pulled' = pulled \cup {Resolve(id)}
        /\ UNCHANGED << pc, ip, skips, status, ns, llm, llmBefore, prompt, llm_chain,
                        app, files, invocations, gen, stdout, out >>

Next ==
    \/ NameError
    \/ Import
    \/ Shell
    \/ Construct
    \/ ConstructRaise
    \/ CallBegin
    \/ CallRaise
    \/ NewToken
    \/ CallReturn
    \/ DefineTemplate
    \/ DefineSelector
    \/ SelectPrompt
    \/ SelectRaise
    \/ Display
    \/ BuildChain
    \/ SetQuestion
    \/ ChainRun
    \/ ChainRunRaise
    \/ FinishCell
    \/ SkipCell
    \/ RunApp
    \/ Pull

Spec == Init /\ [][Next]_vars

(* ------------------------------ the claims ------------------------------ *)

IndexOf(id) == CHOOSE i \in 1..NCells : CodeCells[i] = id

StmtOf(id, op) == CHOOSE i \in DOMAIN Source(id) : Source(id)[i].op = op

\* the places of the cells and statements the claims name
Ix_16759b7c == IndexOf("16759b7c")

Ix_8555f5bf == IndexOf("8555f5bf")

Ix_86178adb == IndexOf("86178adb")

Ix_8ecd2f78 == IndexOf("8ecd2f78")

Ix_915ecd4c == IndexOf("915ecd4c")

Ix_a88bf0c8 == IndexOf("a88bf0c8")

Ix_d0aedfd2 == IndexOf("d0aedfd2")

Ix_7890a077 == IndexOf("7890a077")

Ix_e3d4526f == IndexOf("e3d4526f")

GetPromptAt == StmtOf("8555f5bf", "get_prompt")

\* the tokens call c has written to standard output, in the order written
WrittenBy(c) ==
    LET Mine(e) == e.call = c
        sel == SelectSeq(stdout, Mine)
    IN [i \in DOMAIN sel |-> sel[i].tok]

Calls == {i \in DOMAIN invocations : invocations[i].op = "call"}

\* get_prompt was reached with `llm` bound to a client and raised
GetPromptFailed ==
    /\ llm # NoClient
    /\ status[Ix_8555f5bf].state = "error"
    /\ status[Ix_8555f5bf].at = GetPromptAt

\* the template selected is the LLaMA one exactly for a LlamaCpp client, the
\* default one for every other client, and never anything else
SelectedByType ==
    prompt # NoTemplate =>
        /\ llm # NoClient
        /\ prompt \in {DEFAULT_LLAMA_SEARCH_PROMPT, DEFAULT_SEARCH_PROMPT}
        /\ prompt = DEFAULT_LLAMA_SEARCH_PROMPT <=> llm.cls = "LlamaCpp"
        /\ prompt = DEFAULT_SEARCH_PROMPT <=> llm.cls \in {"Ollama", "GPT4All"}

\* C1 as stated: get_prompt(llm) returns DEFAULT_LLAMA_SEARCH_PROMPT iff llm is
\* a LlamaCpp instance and DEFAULT_SEARCH_PROMPT for every other client, never
\* anything else, and it never fails to return a template.
C1_AsStated == SelectedByType /\ ~GetPromptFailed

\* C1, amended: get_prompt(llm) returns DEFAULT_LLAMA_SEARCH_PROMPT iff llm is
\* a LlamaCpp instance and DEFAULT_SEARCH_PROMPT for every other client, never
\* anything else; it fails to return a template only when the name LlamaCpp,
\* which the condition's lambda reads, is not bound in the kernel.
C1_SelectsByClientType ==
    /\ SelectedByType
    /\ GetPromptFailed => "LlamaCpp" \notin ns

\* get_prompt has returned the default template for a client that is not LlamaCpp
C1_Witness ==
    /\ status[Ix_8555f5bf].state = "ok"
    /\ prompt = DEFAULT_SEARCH_PROMPT
    /\ llm.cls = "GPT4All"
    /\ "LlamaCpp" \in ns

\* the cells that construct their client with
\* callback_manager=CallbackManager([StreamingStdOutCallbackHandler()])
StreamingCells == {"9cd83603", "a88bf0c8", "16759b7c"}

\* C2: a call on a client constructed with the streaming callback manager
\* writes the tokens to standard output one by one in the order generated, and
\* what it wrote during the call is exactly the string the call returns.
C2_StreamEqualsReturn ==
    /\ \A c \in DOMAIN gen :
          invocations[c].client.madeIn \in StreamingCells => WrittenBy(c) = gen[c]
    /\ (out.kind = "str" /\ invocations[out.call].client.madeIn \in StreamingCells)
          => WrittenBy(out.call) = out.text

\* a streaming call has returned a text of several tokens
C2_Witness ==
    /\ out.kind = "str"
    /\ invocations[out.call].client.madeIn \in StreamingCells
    /\ Len(out.text) >= 2
    /\ DOMAIN gen = {}

LastInvocation == invocations[Len(invocations)]

LlamaCppMade ==
    {i \in DOMAIN invocations :
        invocations[i].op = "new" /\ invocations[i].client.cls = "LlamaCpp"}

\* C4: every LlamaCpp client is constructed with the documented values
\* n_gpu_layers = 1, n_ctx = 2048, f16_kv = True and with n_batch = 512, which
\* lies between 1 and n_ctx, and the two constructions pass identical arguments.
C4_LlamaCppConfig ==
    /\ \A i \in LlamaCppMade :
          LET a == invocations[i].client.args
          IN /\ a.n_gpu_layers = DocumentedParams.n_gpu_layers
             /\ a.n_ctx = DocumentedParams.n_ctx
             /\ a.f16_kv = DocumentedParams.f16_kv
             /\ a.n_gpu_layers = 1 /\ a.n_ctx = 2048 /\ a.f16_kv = TRUE
             /\ a.n_batch = 512
             /\ 1 <= a.n_batch /\ a.n_batch <= a.n_ctx
    /\ \A i, j \in LlamaCppMade :
          invocations[i].client.args = invocations[j].client.args
    /\ llm.cls = "LlamaCpp" =>
          \E i \in LlamaCppMade : ~invocations[i].raised /\ invocations[i].client = llm

\* both cells have constructed their LlamaCpp client
C4_Witness ==
    /\ \E i \in LlamaCppMade : invocations[i].client.madeIn = "a88bf0c8" /\ ~invocations[i].raised
    /\ \E i \in LlamaCppMade : invocations[i].client.madeIn = "16759b7c" /\ ~invocations[i].raised
    /\ llm.madeIn = "16759b7c"

\* the model an identifier written in the notebook names
NamedModel(id) ==
    IF id = "8ecd2f78"
    THEN [family |-> <<"llama2">>, tag |-> <<"13b">>]
    ELSE [family |-> <<"llama2">>, tag |-> BasicTag]

LibraryRaises ==
    /\ Running
    /\ status[pc].state = "pending"
    /\ status'[pc].state = "error"
    /\ status'[pc].exc \in {"ValueError", "ConnectionError"}

\* no statement was invoked twice
AttemptedOnce ==
    \A i, j \in DOMAIN invocations :
        (invocations[i].cell = invocations[j].cell /\ invocations[i].at = invocations[j].at)
            => i = j

\* the cell at pc has rebound `llm` before the statement at ip
ReboundInCell ==
    \E k \in 1..(ip - 1) : Source(CellId)[k].op = "new"

\* the error ends the cell: nothing catches it, nothing runs the statement again
Propagates ==
    /\ pc' = pc + 1
    /\ ip' = 1
    /\ LastInvocation'.raised
    /\ LastInvocation'.cell = pc
    /\ LastInvocation'.at = ip
    /\ AttemptedOnce'
    /\ gen' = gen

\* C6 as stated: a constructor or call that raises is attempted exactly once,
\* the error propagates out of the cell, and the value bound to `llm` before
\* the failed cell is left unchanged by it.
C6_AsStated ==
    [][ LibraryRaises => (Propagates /\ llm' = llmBefore) ]_vars

\* C6, amended: a constructor or call that raises is attempted exactly once
\* and the error propagates out of the cell; the failing statement leaves `llm`
\* as it was, which is the value bound before the cell unless the cell had
\* already rebound `llm` (86178adb, 9cd83603, 8ecd2f78: a failed call there
\* leaves `llm` bound to the client the cell has just constructed).
C6_ErrorsPropagate ==
    [][ LibraryRaises =>
          /\ Propagates
          /\ llm' = llm
          /\ ~ReboundInCell => llm' = llmBefore
          /\ ReboundInCell => llm'.madeIn = CellId ]_vars

\* a construction has failed and left the earlier client bound, and a call
\* has failed after its cell rebound `llm`
C6_Witness ==
    /\ status[Ix_a88bf0c8].exc = "ValueError"
    /\ status[Ix_8ecd2f78].exc = "ConnectionError"
    /\ pc = Ix_a88bf0c8 + 1
    /\ llm.madeIn = "8ecd2f78"

OkUpTo(n) == \A i \in 1..n : status[i].state = "ok"

\* C7: run in document order, `llm` is the GPT4All client until the "Set our
\* LLM" cell rebinds it to a LlamaCpp client, so get_prompt selects the LLaMA
\* template; with that cell skipped the default template is selected; and the
\* chain is built with the selected prompt and the `llm` it was selected for.
C7_DocumentOrder ==
    /\ (OkUpTo(Ix_16759b7c - 1) /\ pc = Ix_16759b7c /\ ip = 1)
          => llm.cls = "GPT4All"
    /\ OkUpTo(Ix_8555f5bf) =>
          /\ llm.cls = "LlamaCpp"
          /\ llm.madeIn = "16759b7c"
          /\ prompt = DEFAULT_LLAMA_SEARCH_PROMPT
    /\ ( /\ OkUpTo(Ix_16759b7c - 1)
         /\ status[Ix_16759b7c].state = "skipped"
         /\ status[Ix_8555f5bf].state = "ok" )
          => (llm.cls = "GPT4All" /\ prompt = DEFAULT_SEARCH_PROMPT)
    /\ llm_chain # NoChain =>
          /\ llm_chain.prompt = prompt
          /\ llm_chain.llm = llm
          /\ llm_chain.prompt = GetPrompt(QUESTION_PROMPT_SELECTOR, llm_chain.llm)

\* every cell has run, in order, and the chain holds the LLaMA template
C7_Witness ==
    /\ OkUpTo(NCells)
    /\ llm_chain.prompt = DEFAULT_LLAMA_SEARCH_PROMPT
    /\ llm_chain.llm.cls = "LlamaCpp"

\* the calls the chain cell has made
RunCalls == {i \in Calls : invocations[i].cell = Ix_d0aedfd2}

\* the text of a template with q in the place of {question}
Filled(t, q) ==
    [k \in DOMAIN t.template |->
        IF t.template[k] = [kind |-> "var", text |-> "question"] THEN q
        ELSE t.template[k].text]

\* both templates declare, and hold, exactly the one input variable "question"
TemplatesDeclareQuestion ==
    \A t \in {DEFAULT_LLAMA_SEARCH_PROMPT, DEFAULT_SEARCH_PROMPT} :
        /\ t.input_variables = <<"question">>
        /\ Placeholders(t) = {"question"}
        /\ Cardinality({k \in DOMAIN t.template : t.template[k].kind = "var"}) = 1

\* C8: llm_chain.run({"question": q}) fills the one placeholder {question} of
\* the selected template with q, calls the chain's llm exactly once with that
\* text and returns that call's string; both templates declare exactly the
\* input variable "question", so the run is well-formed with either.
C8_ChainRun ==
    /\ TemplatesDeclareQuestion
    /\ Cardinality(RunCalls) <= 1
    /\ \A i \in RunCalls :
          /\ invocations[i].client = llm_chain.llm
          /\ invocations[i].prompt = Filled(llm_chain.prompt, Question)
          /\ \E k \in DOMAIN invocations[i].prompt : invocations[i].prompt[k] = Question
    /\ status[Ix_d0aedfd2].state = "error" =>
          status[Ix_d0aedfd2].exc \in {"NameError", "ConnectionError"}
    /\ status[Ix_d0aedfd2].state = "ok" =>
          /\ Cardinality(RunCalls) = 1
          /\ out.kind = "str"
          /\ out.call \in RunCalls
          /\ ~invocations[out.call].raised
          /\ out.cell = Ix_d0aedfd2

\* the chain has run with the default template and returned a text
C8_Witness ==
    /\ status[Ix_d0aedfd2].state = "ok"
    /\ llm_chain.prompt = DEFAULT_SEARCH_PROMPT
    /\ out.call \in RunCalls
    /\ Len(out.text) >= 1

\* what the calls that have returned wrote is what they had written when they returned
ReturnedOutputFixed ==
    \A c \in Calls : (c \notin DOMAIN gen) => WrittenBy(c)' = WrittenBy(c)

\* C9: calls are synchronous and sequential: at most one call is in progress,
\* the kernel stays at the calling statement until the call returns, every
\* token a call writes is written before it returns, and the output of one
\* call is never interleaved with that of another.
C9_Sequential ==
    /\ [](/\ Cardinality(DOMAIN gen) <= 1
          /\ \A c \in DOMAIN gen :
                /\ c = Len(invocations)
                /\ invocations[c].cell = pc
                /\ invocations[c].at = ip
          /\ \A i, j \in DOMAIN stdout : i < j => stdout[i].call <= stdout[j].call)
    /\ [][ReturnedOutputFixed]_vars

\* two streaming calls have written, and the later one is still in progress
C9_Witness ==
    /\ \E i, j \in DOMAIN stdout : stdout[i].call < stdout[j].call
    /\ DOMAIN gen # {}
    /\ \E i \in DOMAIN stdout : stdout[i].call \in DOMAIN gen

\* the cells that construct their client without a callback manager
SilentCells == {"86178adb", "8ecd2f78", "915ecd4c"}

\* C10: a call on a client constructed without a callback manager writes
\* nothing to standard output; tokens are written only by the calls of clients
\* that registered the streaming handler.
C10_SilentWithoutHandler ==
    /\ \A c \in Calls :
          invocations[c].client.madeIn \in SilentCells => WrittenBy(c) = <<>>
    /\ \A i \in DOMAIN stdout :
          /\ stdout[i].call \in Calls
          /\ Streams(invocations[stdout[i].call].client)
          /\ invocations[stdout[i].call].client.madeIn \in StreamingCells

\* a call on a client without a callback manager has returned a text, nothing written
C10_Witness ==
    /\ out.kind = "str"
    /\ invocations[out.call].client.madeIn \in SilentCells
    /\ Len(out.text) >= 2
    /\ WrittenBy(out.call) = <<>>

\* the cells are run in document order: none is left out
DocumentOrder == skips = 0

\* the client the latest successful construction before invocation i bound to `llm`
AssignedBefore(i) ==
    LET made == {k \in 1..(i - 1) : invocations[k].op = "new" /\ ~invocations[k].raised}
    IN IF made = {} THEN NoClient
       ELSE invocations[CHOOSE k \in made : \A m \in made : m <= k].client

\* the calls of the cells that hold a bare llm(...) only
BareCalls(ix) == {i \in Calls : invocations[i].cell = ix}

\* C11: run in document order, every name a cell uses is bound by an earlier
\* cell or by the cell itself, so no cell raises NameError (the "Set our LLM"
\* cell and the selector's lambda find the LlamaCpp that cell a88bf0c8
\* imported), and each bare llm(...) call targets the client most recently
\* assigned to `llm`: the LlamaCpp client in 7890a077, the GPT4All client in
\* e3d4526f.
C11_NamesBoundInOrder ==
    /\ DocumentOrder =>
          /\ \A i \in 1..NCells : status[i].exc # "NameError"
          /\ (Running /\ KernelIdle /\ ip <= Len(Source(CellId))) =>
                /\ NamesBound
                /\ Cur.op = "get_prompt" =>
                      SelectorReads(QUESTION_PROMPT_SELECTOR) \subseteq BoundNames
          /\ pc >= Ix_16759b7c =>
                {"LlamaCpp", "CallbackManager", "StreamingStdOutCallbackHandler"} \subseteq ns
          /\ pc > Ix_86178adb => ("Ollama" \in ns /\ llm # NoClient)
    /\ \A i \in Calls :
          invocations[i].cell # Ix_d0aedfd2 =>
             /\ invocations[i].client # NoClient
             /\ invocations[i].client = AssignedBefore(i)
    /\ (DocumentOrder /\ status[Ix_a88bf0c8].state = "ok") =>
          \A i \in BareCalls(Ix_7890a077) :
             /\ invocations[i].client.cls = "LlamaCpp"
             /\ invocations[i].client.madeIn = "a88bf0c8"
    /\ (DocumentOrder /\ status[Ix_915ecd4c].state = "ok") =>
          \A i \in BareCalls(Ix_e3d4526f) :
             /\ invocations[i].client.cls = "GPT4All"
             /\ invocations[i].client.madeIn = "915ecd4c"

\* every cell was run in order, and both bare calls were made and returned
C11_Witness ==
    /\ DocumentOrder
    /\ pc > NCells
    /\ \A i \in 1..NCells : status[i].state = "ok"
    /\ BareCalls(Ix_7890a077) # {}
    /\ BareCalls(Ix_e3d4526f) # {}

====
